---- MODULE Spec2Model ----
(***************************************************************************)
(* A model of the batch image resizer: the batch orchestrator              *)
(* (processBatch), the naming engine (inferOutputName, sanitizeFilename,   *)
(* makeUniqueName), the orientation normalizer                             *)
(* (correctOrientationToCanvas) and the fit resolver (computeDrawRect).    *)
(*                                                                         *)
(* Strings are sequences of one-character strings, so that the string      *)
(* functions are computed character by character as the code computes      *)
(* them.  A raster is a record [w, h, px] whose px maps <<x, y>> to a      *)
(* pixel value, 0 being a transparent (never drawn) pixel.                 *)
(***************************************************************************)
EXTENDS Integers, Sequences, FiniteSets, TLC

\* ------------------------------------------------------------------------
\* Bounds of the model
\* ------------------------------------------------------------------------
MaxFiles == 3
MaxPresets == 2
MaxRequests == 4
MaxDim == 2
MaxFitDim == 5
MaxSrcDim == 3
MaxPresetDim == 5
MaxSharpenDim == 3
MaxSelected == 3
MaxManagerPresets == 2
MaxRunning == 2

\* Program constants
MaxLength == 120
YieldEvery == 5

\* ------------------------------------------------------------------------
\* Character sequences
\* ------------------------------------------------------------------------
DigitChars == <<"0", "1", "2", "3", "4", "5", "6", "7", "8", "9">>

\* String(n) for a non-negative integer n
RECURSIVE ToStr(_)
ToStr(n) == IF n < 10 THEN <<DigitChars[n + 1]>>
            ELSE ToStr(n \div 10) \o <<DigitChars[(n % 10) + 1]>>

IMAGE == <<"i", "m", "a", "g", "e">>
PRESET == <<"p", "r", "e", "s", "e", "t">>

\* The elements of s at the indices in keep, in order
SubSeqAt(s, keep) ==
    [k \in 1..Cardinality(keep) |->
        s[CHOOSE i \in keep : Cardinality({j \in keep : j <= i}) = k]]

\* The last index of character c in s, 0 when there is none
LastIndexOf(s, c) ==
    LET at == {i \in 1..Len(s) : s[i] = c}
    IN IF at = {} THEN 0 ELSE CHOOSE i \in at : \A j \in at : j <= i

\* s without its leading and trailing characters that are in cs
StripEnds(s, cs) ==
    LET kept == {i \in 1..Len(s) : s[i] \notin cs}
    IN IF kept = {} THEN <<>>
       ELSE SubSeq(s, CHOOSE i \in kept : \A j \in kept : i <= j,
                      CHOOSE i \in kept : \A j \in kept : j <= i)

\* ------------------------------------------------------------------------
\* utils.js: sanitizeFilename
\* ------------------------------------------------------------------------
Forbidden == {"\\", "/", ":", "*", "?", "\"", "<", ">", "|"}
Whitespace == {" ", "\t"}

LowerOf(c) ==
    CASE c = "C" -> "c" [] c = "O" -> "o" [] c = "N" -> "n" [] c = "P" -> "p"
      [] c = "R" -> "r" [] c = "A" -> "a" [] c = "U" -> "u" [] c = "X" -> "x"
      [] c = "L" -> "l" [] c = "M" -> "m" [] c = "T" -> "t" [] OTHER -> c

\* /^(CON|PRN|AUX|NUL|COM[1-9]|LPT[1-9])$/i
Reserved(s) ==
    LET low == [k \in 1..Len(s) |-> LowerOf(s[k])]
    IN \/ low \in {<<"c", "o", "n">>, <<"p", "r", "n">>,
                   <<"a", "u", "x">>, <<"n", "u", "l">>}
       \/ /\ Len(low) = 4
          /\ SubSeq(low, 1, 3) \in {<<"c", "o", "m">>, <<"l", "p", "t">>}
          /\ \E d \in 2..10 : low[4] = DigitChars[d]

\* replace(/[\\/:*?"<>|]/g, '-')
ReplaceForbidden(s) ==
    [k \in 1..Len(s) |-> IF s[k] \in Forbidden THEN "-" ELSE s[k]]

\* replace(/\s+/g, ' ').trim()
CollapseWhitespace(s) ==
    LET keep == {i \in 1..Len(s) :
                    \/ s[i] \notin Whitespace
                    \/ i = 1
                    \/ s[i - 1] \notin Whitespace}
        one == SubSeqAt(s, keep)
        spaced == [k \in 1..Len(one) |->
                      IF one[k] \in Whitespace THEN " " ELSE one[k]]
    IN StripEnds(spaced, Whitespace)

sanitizeFilename(name) ==
    LET s1 == CollapseWhitespace(ReplaceForbidden(name))
        s2 == StripEnds(s1, Whitespace \cup {"."})
        s3 == IF Len(s2) = 0 THEN IMAGE ELSE s2
        s4 == IF Reserved(s3) THEN s3 \o <<"_">> ELSE s3
    IN IF Len(s4) > MaxLength THEN SubSeq(s4, 1, MaxLength) ELSE s4

\* ------------------------------------------------------------------------
\* utils.js: makeUniqueName
\* ------------------------------------------------------------------------
\* `${baseName}-${counter}`
Suffixed(baseName, counter) == baseName \o <<"-">> \o ToStr(counter)

\* The while loop: the candidate that is not in usedNames, from counter on
RECURSIVE Probe(_, _, _, _)
Probe(baseName, usedNames, candidate, counter) ==
    IF candidate \in usedNames
    THEN Probe(baseName, usedNames, Suffixed(baseName, counter), counter + 1)
    ELSE candidate

\* makeUniqueName with its counter starting at 1
makeUniqueNameFromOne(baseName, usedNames) ==
    LET candidate == Probe(baseName, usedNames, baseName, 1)
    IN [name |-> candidate, used |-> usedNames \cup {candidate}]

\* makeUniqueName without its usedNames.add(candidate)
makeUniqueNameNoReserve(baseName, usedNames) ==
    [name |-> Probe(baseName, usedNames, baseName, 2), used |-> usedNames]

\* The name returned and the used-name set as the call leaves it
makeUniqueName(baseName, usedNames) ==
    LET candidate == Probe(baseName, usedNames, baseName, 2)
    IN [name |-> candidate, used |-> usedNames \cup {candidate}]

\* ------------------------------------------------------------------------
\* utils.js: inferOutputName
\* ------------------------------------------------------------------------
\* A naming pattern is a sequence whose elements are placeholders (the
\* strings below) or single characters.  The code substitutes the
\* placeholders one after the other with replaceAll; as no substituted value
\* of the model holds a brace, that equals substituting them all at once.
DefaultPattern == <<"{name}", "_", "{preset}">>

FormatChars(format) ==
    CASE format = "jpeg" -> <<"j", "p", "e", "g">>
      [] format = "png" -> <<"p", "n", "g">>
      [] format = "webp" -> <<"w", "e", "b", "p">>
      [] format = "avif" -> <<"a", "v", "i", "f">>

\* (inputName || 'image').replace(/\.[^.]+$/, '')
StripExtension(inputName) ==
    LET n == IF inputName = <<>> THEN IMAGE ELSE inputName
        k == LastIndexOf(n, ".")
    IN IF k > 0 /\ k < Len(n) THEN SubSeq(n, 1, k - 1) ELSE n

RECURSIVE Concat(_)
Concat(ss) == IF ss = <<>> THEN <<>> ELSE Head(ss) \o Concat(Tail(ss))

inferOutputName(inputName, index, preset) ==
    LET base == StripExtension(inputName)
        pattern == IF preset.namingPattern = <<>> THEN DefaultPattern
                   ELSE preset.namingPattern
        Subst(t) ==
            CASE t = "{name}" -> base
              [] t = "{index}" -> ToStr(index)
              [] t = "{preset}" -> IF preset.name = <<>> THEN PRESET ELSE preset.name
              [] t = "{width}" -> ToStr(preset.width)
              [] t = "{height}" -> ToStr(preset.height)
              [] t = "{format}" -> FormatChars(preset.format)
              [] t = "{product}" -> preset.productName
              [] OTHER -> <<t>>
    IN Concat([k \in 1..Len(pattern) |-> Subst(pattern[k])])

\* ------------------------------------------------------------------------
\* pipeline.js: processBatch
\* ------------------------------------------------------------------------
VARIABLES
    files,            \* the source files: a sequence of file names
    presets,          \* the presets: a sequence of records
    globalOptions,    \* [namingPattern, productName]
    onProgress,       \* whether the caller gave a progress callback
    pc,               \* where processBatch is suspended
    i, p,             \* the loop indices (0-based, as in the code)
    completed, total,
    zipFolders,       \* the archive's folders
    zipFiles,         \* the archive's file entries [folder, name, blob]
    folderUsedNames,  \* folder name -> set of names used in it
    placed,           \* per archived job, in order: [job, folder, base, name]
    failed,           \* the jobs whose transformSingle threw
    error,            \* why processBatch rejected: "none", "job", "archive"
    trace             \* what processBatch did, in order

batchVars == <<files, presets, globalOptions, onProgress, pc, i, p, completed,
               total, zipFolders, zipFiles, folderUsedNames, placed, failed, error,
               trace>>

\* The non-empty sequences over S of at most n elements
SeqsUpTo(S, n) == UNION {[1..k -> S] : k \in 1..n}

FileNames == {<<"a", ".", "p">>, <<"a", "-", "2", ".", "p">>}

PresetPool ==
    {[name |-> <<"s", ":">>, format |-> "png", width |-> 8, height |-> 6],
     [name |-> <<"s", "/">>, format |-> "jpeg", width |-> 8, height |-> 6],
     [name |-> <<>>, format |-> "jpeg", width |-> 4, height |-> 4]}

Patterns == {<<>>, <<"{name}">>,
             <<"{index}", "{product}", ".", "{width}", "x", "{height}", "{format}">>}

\* The name transformSingle returns for a job: `${outputName}.${ext}`, the
\* canvas having the preset's width and height when both are set.
transformSingleName(file, preset, index) ==
    LET outputName == inferOutputName(file, index,
            [name |-> preset.name, format |-> preset.format,
             width |-> preset.width, height |-> preset.height,
             namingPattern |-> globalOptions.namingPattern,
             productName |-> globalOptions.productName])
        ext == IF preset.format = "jpeg" THEN <<"j", "p", "g">>
               ELSE FormatChars(preset.format)
    IN outputName \o <<".">> \o ext

\* outputName.split('.'), parts.pop(), parts.join('.') || 'image'
SplitName(outputName) ==
    LET k == LastIndexOf(outputName, ".")
        joined == IF k = 0 THEN <<>> ELSE SubSeq(outputName, 1, k - 1)
    IN [ext |-> SubSeq(outputName, k + 1, Len(outputName)),
        base |-> IF joined = <<>> THEN IMAGE ELSE joined]

\* The folder named without the preset's own name
FolderOfDefault(preset) == sanitizeFilename(PRESET)

\* sanitizeFilename(preset.name || 'preset')
FolderOf(preset) ==
    sanitizeFilename(IF preset.name = <<>> THEN PRESET ELSE preset.name)

\* folderUsedNames.get(folderName), a new Set when there is none
UsedIn(folderName) ==
    IF folderName \in DOMAIN folderUsedNames THEN folderUsedNames[folderName]
    ELSE {}

\* JSZip's folder.file(name, blob): an entry at an existing path is replaced
ZipPut(entries, folder, name, blob) ==
    {e \in entries : ~(e.folder = folder /\ e.name = name)}
        \cup {[folder |-> folder, name |-> name, blob |-> blob]}

\* The report made before completed++
ProgressReportStale(n, t) ==
    IF onProgress THEN <<<<"progress", n - 1, t>>>> ELSE <<>>

\* onProgress && onProgress(completed, total)
ProgressReport(n, t) ==
    IF onProgress THEN <<<<"progress", n, t>>>> ELSE <<>>

\* The yield due one job early
YieldDueEarly(n) == (n + 1) % YieldEvery = 0

\* completed % 5 === 0
YieldDue(n) == n % YieldEvery = 0

\* The loops nested the other way round: all files of a preset first
NextJobColumnMajor(fi, pi) ==
    IF fi + 1 < Len(files) THEN <<fi + 1, pi>>
    ELSE IF pi + 1 < Len(presets) THEN <<0, pi + 1>>
    ELSE <<Len(files), 0>>

\* The job the two nested for loops run after job (fi, pi): <<i, p>>, or
\* <<Len(files), 0>> when the loops are over
NextJob(fi, pi) ==
    IF pi + 1 < Len(presets) THEN <<fi, pi + 1>>
    ELSE IF fi + 1 < Len(files) THEN <<fi + 1, 0>>
    ELSE <<Len(files), 0>>

\* The loops go on from job (fi, pi): the next transformSingle is called, or
\* zip.generateAsync is
Advance(fi, pi, tr) ==
    LET n == NextJob(fi, pi)
    IN /\ i' = n[1]
       /\ p' = n[2]
       /\ IF n[1] < Len(files)
          THEN /\ pc' = "transform"
               /\ trace' = tr \o <<<<"start", n[1], n[2]>>>>
          ELSE /\ pc' = "finalize"
               /\ trace' = tr \o <<<<"generate", completed', total>>>>

\* The click handler of app.js calls processBatch with at least one file and
\* one preset (it returns before the call otherwise).
BatchInit ==
    /\ files \in SeqsUpTo(FileNames, MaxFiles)
    /\ presets \in SeqsUpTo(PresetPool, MaxPresets)
    /\ globalOptions \in [namingPattern : Patterns, productName : {<<"q">>}]
    /\ onProgress \in BOOLEAN
    /\ pc = "idle"
    /\ i = 0 /\ p = 0
    /\ completed = 0 /\ total = 0
    /\ zipFolders = {} /\ zipFiles = {}
    /\ folderUsedNames = <<>>
    /\ placed = <<>>
    /\ failed = {}
    /\ error = "none"
    /\ trace = <<>>

\* processBatch is called: lines 284-288, and the loops are entered
Call ==
    /\ pc = "idle"
    /\ total' = Len(files) * Len(presets)
    /\ completed' = 0
    /\ zipFolders' = {} /\ zipFiles' = {}
    /\ folderUsedNames' = <<>>
    /\ IF Len(files) > 0 /\ Len(presets) > 0
       THEN /\ pc' = "transform"
            /\ i' = 0 /\ p' = 0
            /\ trace' = <<<<"start", 0, 0>>>>
       ELSE /\ pc' = "finalize"
            /\ i' = Len(files) /\ p' = 0
            /\ trace' = <<<<"generate", 0, total'>>>>
    /\ UNCHANGED <<files, presets, globalOptions, onProgress, placed, failed,
                   error>>

\* transformSingle resolves: lines 294-309 run to the next await
TransformOk ==
    /\ pc = "transform"
    /\ LET preset == presets[p + 1]
           parts == SplitName(transformSingleName(files[i + 1], preset, i))
           safeBase == sanitizeFilename(parts.base)
           folderName == FolderOf(preset)
           u == makeUniqueName(safeBase, UsedIn(folderName))
           finalName == u.name \o <<".">> \o parts.ext
           tr == trace \o <<<<"add", i, p>>>>
                       \o ProgressReport(completed + 1, total)
       IN /\ zipFolders' = zipFolders \cup {folderName}
          /\ zipFiles' = ZipPut(zipFiles, folderName, finalName, <<i, p>>)
          /\ folderUsedNames' =
                [f \in DOMAIN folderUsedNames \cup {folderName} |->
                    IF f = folderName THEN u.used ELSE folderUsedNames[f]]
          /\ placed' = Append(placed, [job |-> <<i, p>>, folder |-> folderName,
                                        base |-> safeBase, name |-> finalName])
          /\ completed' = completed + 1
          /\ IF YieldDue(completed + 1)
             THEN /\ pc' = "yield"
                  /\ trace' = tr \o <<<<"yield", completed + 1, total>>>>
                  /\ UNCHANGED <<i, p>>
             ELSE Advance(i, p, tr)
    /\ UNCHANGED <<files, presets, globalOptions, onProgress, total, failed, error>>

\* transformSingle rejects (decode or encode failed): the await at line 294
\* throws, nothing catches it, processBatch rejects
TransformFail ==
    /\ pc = "transform"
    /\ pc' = "rejected"
    /\ failed' = failed \cup {<<i, p>>}
    /\ error' = "job"
    /\ trace' = trace \o <<<<"throw", i, p>>>>
    /\ UNCHANGED <<files, presets, globalOptions, onProgress, i, p, completed,
                   total, zipFolders, zipFiles, folderUsedNames, placed>>

\* The timer of line 309 fires: the loops go on
YieldResume ==
    /\ pc = "yield"
    /\ Advance(i, p, trace)
    /\ UNCHANGED <<files, presets, globalOptions, onProgress, completed, total,
                   zipFolders, zipFiles, folderUsedNames, placed, failed, error>>

\* zip.generateAsync resolves: processBatch returns the archive
FinalizeOk ==
    /\ pc = "finalize"
    /\ pc' = "done"
    /\ trace' = trace \o <<<<"return", completed, total>>>>
    /\ UNCHANGED <<files, presets, globalOptions, onProgress, i, p, completed,
                   total, zipFolders, zipFiles, folderUsedNames, placed, failed, error>>

\* zip.generateAsync rejects: processBatch rejects
FinalizeFail ==
    /\ pc = "finalize"
    /\ pc' = "rejected"
    /\ error' = "archive"
    /\ trace' = trace \o <<<<"throw", completed, total>>>>
    /\ UNCHANGED <<files, presets, globalOptions, onProgress, i, p, completed,
                   total, zipFolders, zipFiles, folderUsedNames, placed, failed>>

\* ------------------------------------------------------------------------
\* utils.js: makeUniqueName called again and again on one used-name set
\* ------------------------------------------------------------------------
VARIABLES
    nmUsed,           \* the used-name set
    nmLog             \* the calls made: [base, before, name, after]

nameVars == <<nmUsed, nmLog>>

BaseNames == {<<"a">>, <<"a", "-", "2">>, <<"b">>}

\* new Set(), as processBatch makes one per folder
NameInit ==
    /\ nmUsed = {}
    /\ nmLog = <<>>

Request(baseName) ==
    /\ Len(nmLog) < MaxRequests
    /\ LET u == makeUniqueName(baseName, nmUsed)
       IN /\ nmUsed' = u.used
          /\ nmLog' = Append(nmLog, [base |-> baseName, before |-> nmUsed,
                                     name |-> u.name, after |-> u.used])

\* ------------------------------------------------------------------------
\* pipeline.js: correctOrientationToCanvas
\* ------------------------------------------------------------------------
VARIABLES
    imageBitmap,      \* the decoded raster
    orientation,      \* exif.Orientation, 0 when there is none
    canvases          \* the canvases returned so far

orientVars == <<imageBitmap, orientation, canvases>>

\* Two pixel values tell any two pixels apart; 0 is a pixel never drawn.
PixelValues == {1, 2}

Cells(w, h) == (0..(w - 1)) \X (0..(h - 1))

Rasters ==
    UNION {{[w |-> w, h |-> h, px |-> f] : f \in [Cells(w, h) -> PixelValues]} :
              w \in 1..MaxDim, h \in 1..MaxDim}

\* getCanvasContext: a canvas of the given size, cleared
getCanvasContext(width, height) ==
    [w |-> width, h |-> height, px |-> [c \in Cells(width, height) |-> 0]]

\* The current transformation matrix of a 2D context maps (x, y) to
\* (a x + c y + e, b x + d y + f); translate, scale and rotate multiply it
\* from the right.  Math.PI / 2 steps are taken as exact quarter turns.
Identity == [a |-> 1, b |-> 0, c |-> 0, d |-> 1, e |-> 0, f |-> 0]

translate(m, tx, ty) ==
    [m EXCEPT !.e = m.a * tx + m.c * ty + m.e,
              !.f = m.b * tx + m.d * ty + m.f]

scale(m, sx, sy) ==
    [m EXCEPT !.a = m.a * sx, !.b = m.b * sx, !.c = m.c * sy, !.d = m.d * sy]

\* rotate(quarters * Math.PI / 2), clockwise on the canvas
rotate(m, quarters) ==
    LET cos == CASE quarters = 2 -> -1 [] OTHER -> 0
        sin == CASE quarters = 1 -> 1 [] quarters = -1 -> -1 [] OTHER -> 0
    IN [m EXCEPT !.a = m.a * cos + m.c * sin,
                 !.b = m.b * cos + m.d * sin,
                 !.c = m.c * cos - m.a * sin,
                 !.d = m.d * cos - m.b * sin]

Apply(m, x, y) == <<m.a * x + m.c * y + m.e, m.b * x + m.d * y + m.f>>

Min(x, y) == IF x < y THEN x ELSE y

\* The canvas pixel that source pixel (sx, sy), the unit square at (sx, sy),
\* is drawn onto
PixelTarget(m, sx, sy) ==
    LET p0 == Apply(m, sx, sy)
        p1 == Apply(m, sx + 1, sy + 1)
    IN <<Min(p0[1], p1[1]), Min(p0[2], p1[2])>>

\* ctx.drawImage(img, 0, 0) under matrix m: what falls outside the canvas
\* is clipped, what no source pixel covers is left as it was
drawImage(canvas, m, img) ==
    [canvas EXCEPT !.px =
        [c \in Cells(canvas.w, canvas.h) |->
            LET from == {s \in Cells(img.w, img.h) : PixelTarget(m, s[1], s[2]) = c}
            IN IF from = {} THEN canvas.px[c]
               ELSE img.px[CHOOSE s \in from : TRUE]]]

\* orientation >= 5 but for code 5
SwapFromSix(o) == o >= 6 /\ o <= 8

\* orientation >= 5 && orientation <= 8
Swap(o) == o >= 5 /\ o <= 8

\* The switch of lines 178-210; width and height are the canvas's
OrientationMatrix(o, width, height) ==
    CASE o = 2 -> scale(translate(Identity, width, 0), -1, 1)
      [] o = 3 -> rotate(translate(Identity, width, height), 2)
      [] o = 4 -> scale(translate(Identity, 0, height), 1, -1)
      [] o = 5 -> scale(rotate(Identity, 1), 1, -1)
      [] o = 6 -> translate(rotate(Identity, 1), 0, -height)
      [] o = 7 -> scale(translate(rotate(Identity, 1), width, -height), -1, 1)
      [] o = 8 -> translate(rotate(Identity, -1), -width, 0)
      [] OTHER -> Identity

correctOrientationToCanvas(img, o) ==
    IF o = 0 \/ o = 1
    THEN drawImage(getCanvasContext(img.w, img.h), Identity, img)
    ELSE LET width == IF Swap(o) THEN img.h ELSE img.w
             height == IF Swap(o) THEN img.w ELSE img.h
         IN drawImage(getCanvasContext(width, height),
                      OrientationMatrix(o, width, height), img)

\* Orientation 9 stands for a value outside 1..8 (the switch's default)
OrientInit ==
    /\ imageBitmap \in Rasters
    /\ orientation \in 0..9
    /\ canvases = <<>>

Normalize ==
    /\ canvases = <<>>
    /\ canvases' = <<correctOrientationToCanvas(imageBitmap, orientation)>>
    /\ UNCHANGED <<imageBitmap, orientation>>

\* The code that undoes code o
InverseCode(o) == CASE o = 6 -> 8 [] o = 8 -> 6 [] OTHER -> o

\* The normalized raster is normalized again, with the inverse code
NormalizeBack ==
    /\ Len(canvases) = 1
    /\ orientation \in 1..8
    /\ canvases' = Append(canvases,
            correctOrientationToCanvas(canvases[1], InverseCode(orientation)))
    /\ UNCHANGED <<imageBitmap, orientation>>

\* ------------------------------------------------------------------------
\* pipeline.js: computeDrawRect
\* ------------------------------------------------------------------------
VARIABLES
    fitArgs,          \* [srcW, srcH, dstW, dstH, fit]
    rects             \* the rectangles returned so far

fitVars == <<fitArgs, rects>>

FitModes == {"cover", "contain", "inside", "outside", "stretch"}

RECURSIVE GCD(_, _)
GCD(x, y) == IF y = 0 THEN x ELSE GCD(y, x % y)

IsPowerOfTwo(n) == \E k \in 0..n : 2 ^ k = n

\* Whether the double srcW / srcH is the exact quotient
ExactRatio(srcW, srcH) == IsPowerOfTwo(srcH \div GCD(srcW, srcH))

\* Math.round of the exact n / d (d > 0): halves go up
RoundHalfUp(n, d) == (2 * n + d) \div (2 * d)

\* Math.round of the double computed for n / d through the double srcRatio:
\* when srcRatio is not exact and n / d lies half way between two integers,
\* the double may fall on either side
Rounds(n, d, exact) ==
    IF ~exact /\ (2 * n) % d = 0 /\ n % d # 0
    THEN {RoundHalfUp(n, d) - 1, RoundHalfUp(n, d)}
    ELSE {RoundHalfUp(n, d)}

\* The branches of cover taken the other way round
CoverSizeSwapped(srcW, srcH, dstW, dstH) ==
    IF srcW * dstH > dstW * srcH
    THEN {<<dstW, h>> : h \in Rounds(dstW * srcH, srcW, ExactRatio(srcW, srcH))}
    ELSE {<<w, dstH>> : w \in Rounds(dstH * srcW, srcH, ExactRatio(srcW, srcH))}

\* The branches of fit cover (and outside): the sizes <<w, h>>
CoverSize(srcW, srcH, dstW, dstH) ==
    IF srcW * dstH > dstW * srcH
    THEN {<<w, dstH>> : w \in Rounds(dstH * srcW, srcH, ExactRatio(srcW, srcH))}
    ELSE {<<dstW, h>> : h \in Rounds(dstW * srcH, srcW, ExactRatio(srcW, srcH))}

\* The branches of contain taken the other way round
ContainSizeSwapped(srcW, srcH, dstW, dstH) ==
    IF srcW * dstH > dstW * srcH
    THEN {<<w, dstH>> : w \in Rounds(dstH * srcW, srcH, ExactRatio(srcW, srcH))}
    ELSE {<<dstW, h>> : h \in Rounds(dstW * srcH, srcW, ExactRatio(srcW, srcH))}

\* The branches of fit contain (and inside)
ContainSize(srcW, srcH, dstW, dstH) ==
    IF srcW * dstH > dstW * srcH
    THEN {<<dstW, h>> : h \in Rounds(dstW * srcH, srcW, ExactRatio(srcW, srcH))}
    ELSE {<<w, dstH>> : w \in Rounds(dstH * srcW, srcH, ExactRatio(srcW, srcH))}

\* The rectangles computeDrawRect may return
computeDrawRect(srcW, srcH, dstW, dstH, fit) ==
    LET sizes == CASE fit = "stretch" -> {<<dstW, dstH>>}
                   [] fit = "cover" -> CoverSize(srcW, srcH, dstW, dstH)
                   [] fit \in {"contain", "inside"} ->
                          ContainSize(srcW, srcH, dstW, dstH)
                   [] fit = "outside" -> CoverSize(srcW, srcH, dstW, dstH)
                   [] OTHER -> {<<dstW, dstH>>}
    IN {[x |-> RoundHalfUp(dstW - s[1], 2), y |-> RoundHalfUp(dstH - s[2], 2),
         w |-> s[1], h |-> s[2]] : s \in sizes}

FitInit ==
    /\ fitArgs \in [srcW : 1..MaxFitDim, srcH : 1..MaxFitDim,
                    dstW : 1..MaxFitDim, dstH : 1..MaxFitDim, fit : FitModes]
    /\ rects = <<>>

ComputeRect ==
    /\ rects = <<>>
    /\ \E r \in computeDrawRect(fitArgs.srcW, fitArgs.srcH, fitArgs.dstW,
                                fitArgs.dstH, fitArgs.fit) :
          rects' = <<r>>
    /\ UNCHANGED fitArgs

\* ------------------------------------------------------------------------
\* pipeline.js: transformSingle, from the target size to the draw
\* ------------------------------------------------------------------------
VARIABLES
    job,              \* the upright source size, the preset and the options
    drawn             \* what the draws so far resolved and did

transformVars == <<job, drawn>>

Formats == {"jpeg", "png", "webp", "avif"}

\* The binary exponent of n / d: the L with 2^L <= n / d < 2^(L+1)
RECURSIVE Log2Floor(_, _)
Log2Floor(n, d) ==
    IF n < d THEN Log2Floor(2 * n, d) - 1
    ELSE IF n >= 2 * d THEN Log2Floor(n, 2 * d) + 1
    ELSE 0

\* (r * 2^e) % d
RECURSIVE ShiftMod(_, _, _)
ShiftMod(r, e, d) == IF e = 0 THEN r ELSE ShiftMod((2 * r) % d, e - 1, d)

\* What the division srcW / srcH leaves behind the 53 bits of a double
RatioRemainder(srcW, srcH) ==
    ShiftMod(srcW % srcH, 52 - Log2Floor(srcW, srcH), srcH)

\* lhs > rhs * 2^X
GreaterScaled(lhs, rhs, X) ==
    IF X >= 0
    THEN \/ lhs \div (2 ^ X) > rhs
         \/ lhs \div (2 ^ X) = rhs /\ lhs % (2 ^ X) > 0
    ELSE lhs * (2 ^ (0 - X)) > rhs

\* The exact n / d lies half way between two integers
IsHalfWay(n, d) == (2 * n) % d = 0 /\ n % d # 0

\* The binary exponent of the doubles just below k + 1/2
ExponentBelowHalf(k) == IF k >= 1 THEN Log2Floor(k, 1) ELSE 0 - 2

\* The double t / (srcW / srcH) is below the half way point k + 1/2 that the
\* exact quotient is: srcW / srcH was rounded up by more than half the
\* spacing of the doubles there
QuotientFallsBelow(t, srcW, srcH) ==
    /\ IsHalfWay(t * srcH, srcW)
    /\ LET r == RatioRemainder(srcW, srcH)
           k == (t * srcH) \div srcW
           X == ExponentBelowHalf(k) - Log2Floor(srcW, srcH)
       IN /\ 2 * r > srcH
          /\ GreaterScaled((srcH - r) * (2 * k + 1), srcW, X)

\* The double t * (srcW / srcH) is below the half way point of the exact
\* product: srcW / srcH was rounded down by more than half the spacing
ProductFallsBelow(t, srcW, srcH) ==
    /\ IsHalfWay(t * srcW, srcH)
    /\ LET r == RatioRemainder(srcW, srcH)
           k == (t * srcW) \div srcH
           X == ExponentBelowHalf(k) - Log2Floor(srcW, srcH)
       IN /\ r > 0
          /\ 2 * r < srcH
          /\ GreaterScaled(r * (2 * k + 1), srcW, X)

\* Math.round(t / aspect) with aspect the double srcW / srcH
RoundOfQuotient(t, srcW, srcH) ==
    IF QuotientFallsBelow(t, srcW, srcH)
    THEN RoundHalfUp(t * srcH, srcW) - 1
    ELSE RoundHalfUp(t * srcH, srcW)

\* Math.round(t * aspect) with aspect the double srcW / srcH
RoundOfProduct(t, srcW, srcH) ==
    IF ProductFallsBelow(t, srcW, srcH)
    THEN RoundHalfUp(t * srcW, srcH) - 1
    ELSE RoundHalfUp(t * srcW, srcH)

\* The preset dimensions, 0 for one that is not set
PresetDims == (0..MaxPresetDim) \cup {800}

\* The upright source sizes
SourceSizes == ((1..MaxSrcDim) \X (1..MaxSrcDim)) \cup {<<1600, 1200>>, <<10, 29>>}

\* The target size with the missing dimension taken from the other one
\* the wrong way round
TargetSizeInverted(srcW, srcH, width, height, keepAspect) ==
    IF keepAspect /\ width # 0 /\ height = 0
    THEN <<width, RoundOfProduct(width, srcW, srcH)>>
    ELSE IF keepAspect /\ width = 0 /\ height # 0
    THEN <<RoundOfQuotient(height, srcW, srcH), height>>
    ELSE <<width, height>>

\* <<targetW, targetH>> once the aspect ratio is applied
TargetSize(srcW, srcH, width, height, keepAspect) ==
    IF keepAspect /\ width # 0 /\ height = 0
    THEN <<width, RoundOfQuotient(width, srcW, srcH)>>
    ELSE IF keepAspect /\ width = 0 /\ height # 0
    THEN <<RoundOfProduct(height, srcW, srcH), height>>
    ELSE <<width, height>>

useAlpha(format, preserveTransparency) ==
    format # "jpeg" /\ preserveTransparency

singleDim(width, height) ==
    \/ width # 0 /\ height = 0
    \/ width = 0 /\ height # 0

leavesMargins(rect, canvasW, canvasH) ==
    \/ rect.x > 0
    \/ rect.y > 0
    \/ rect.w < canvasW
    \/ rect.h < canvasH

\* A fill only where the rectangle leaves a margin
NeedsFillOnMargins(alpha, preserveTransparency, margins) ==
    ~preserveTransparency /\ margins

\* Whether the canvas is filled with the background before the draw
NeedsFill(alpha, preserveTransparency, margins) ==
    \/ ~alpha
    \/ ~preserveTransparency /\ margins

TransformInit ==
    /\ job \in {[srcW |-> s[1], srcH |-> s[2], width |-> w, height |-> h,
                 keepAspect |-> k, fit |-> f, format |-> fmt,
                 preserveTransparency |-> t] :
                    s \in SourceSizes, w \in PresetDims, h \in PresetDims,
                    k \in BOOLEAN, f \in FitModes, fmt \in Formats,
                    t \in BOOLEAN}
    /\ drawn = <<>>

\* transformSingle from the target size to drawImage
Draw ==
    /\ drawn = <<>>
    /\ LET size == TargetSize(job.srcW, job.srcH, job.width, job.height,
                              job.keepAspect)
           canvasW == size[1]
           canvasH == size[2]
           alpha == useAlpha(job.format, job.preserveTransparency)
           rectsOf == IF singleDim(job.width, job.height)
                      THEN {[x |-> 0, y |-> 0, w |-> canvasW, h |-> canvasH]}
                      ELSE computeDrawRect(job.srcW, job.srcH, canvasW,
                                           canvasH, job.fit)
       IN \E rect \in rectsOf :
             drawn' = <<[targetW |-> canvasW, targetH |-> canvasH,
                         useAlpha |-> alpha, rect |-> rect,
                         filled |-> NeedsFill(alpha, job.preserveTransparency,
                                      leavesMargins(rect, canvasW, canvasH))]>>
    /\ UNCHANGED job

\* ------------------------------------------------------------------------
\* pipeline.js: applySharpen
\* ------------------------------------------------------------------------
VARIABLES
    imageData,        \* the canvas pixels before the pass, <<r, g, b, a>> each
    intensity,        \* <<n, d>> for the intensity n / d
    sharpened         \* the canvas pixels after each pass so far

sharpenVars == <<imageData, intensity, sharpened>>

Pixels == {<<200, 100, 50, 255>>, <<40, 80, 120, 128>>}

Intensities == {<<0, 1>>, <<1, 2>>, <<1, 1>>}

weights == <<0, -1, 0, -1, 5, -1, 0, -1, 0>>

RECURSIVE SumOf(_)
SumOf(ns) == IF ns = <<>> THEN 0 ELSE Head(ns) + SumOf(Tail(ns))

wSum == IF SumOf(weights) # 0 THEN SumOf(weights) ELSE 1

\* Channel c (0..3) of the pixel at (x, y)
get(src, x, y, c) == src.px[<<x, y>>][c + 1]

\* The 3x3 kernel applied around (x, y)
Accumulate(src, x, y, c) ==
    SumOf([k \in 1..9 |->
              get(src, x + ((k - 1) % 3) - 1, y + ((k - 1) \div 3) - 1, c)
                  * weights[k]])

\* n / d clamped to 0..255 and stored in a Uint8ClampedArray: rounded to the
\* nearest integer, a half to the even one
ClampToByte(n, d) ==
    IF n <= 0 THEN 0
    ELSE IF n >= 255 * d THEN 255
    ELSE LET q == n \div d
             r == n % d
         IN IF 2 * r < d THEN q
            ELSE IF 2 * r > d THEN q + 1
            ELSE IF q % 2 = 0 THEN q ELSE q + 1

\* (1 - intensity) * get(x, y, c) + intensity * (acc / wSum), stored
Blend(src, x, y, c, n, d) ==
    ClampToByte((d - n) * get(src, x, y, c) * wSum + n * Accumulate(src, x, y, c),
                d * wSum)

\* The pixels the pass puts back: out starts as zeros and only the pixels off
\* the border are written
applySharpen(src, n, d) ==
    IF n <= 0 THEN src
    ELSE [src EXCEPT !.px =
             [cell \in Cells(src.w, src.h) |->
                 IF /\ cell[1] >= 1 /\ cell[1] < src.w - 1
                    /\ cell[2] >= 1 /\ cell[2] < src.h - 1
                 THEN <<Blend(src, cell[1], cell[2], 0, n, d),
                        Blend(src, cell[1], cell[2], 1, n, d),
                        Blend(src, cell[1], cell[2], 2, n, d),
                        get(src, cell[1], cell[2], 3)>>
                 ELSE <<0, 0, 0, 0>>]]

SharpenInit ==
    /\ imageData \in UNION {{[w |-> w, h |-> h, px |-> f] :
                                f \in [Cells(w, h) -> Pixels]} :
                            w \in 1..MaxSharpenDim, h \in 1..MaxSharpenDim}
    /\ intensity \in Intensities
    /\ sharpened = <<>>

Sharpen ==
    /\ sharpened = <<>>
    /\ sharpened' = <<applySharpen(imageData, intensity[1], intensity[2])>>
    /\ UNCHANGED <<imageData, intensity>>

\* ------------------------------------------------------------------------
\* pipeline.js: transformSingle from the encoding on, injectJpegDpiIfNeeded,
\* injectJpegComment
\* ------------------------------------------------------------------------
VARIABLES
    encOptions,       \* [format, jpegDpi, productName, comment]
    blob,             \* the payload transformSingle holds
    at,               \* where transformSingle is suspended
    fr,               \* the FileReader of the injection under way
    injections        \* the injections begun: [step, outcome, before, after, settled]

injectVars == <<encOptions, blob, at, fr, injections>>

\* An IFD without tags
NoTags == [t \in {} |-> 0]

\* What canvas.toBlob encodes: the pixels, no Exif segment
Encoded == [pixels |-> "canvas", exif |-> NoTags]

NoBlob == [pixels |-> "none", exif |-> NoTags]

\* zeroth as injectJpegDpiIfNeeded fills it
DpiZeroth(dpi) ==
    [t \in {"XResolution", "YResolution", "ResolutionUnit"} |->
        IF t = "ResolutionUnit" THEN 2 ELSE <<dpi, 1>>]

\* [productName, comment].filter(Boolean).join(' - ')
Description(productName, comment) ==
    IF productName # <<>> /\ comment # <<>>
    THEN productName \o <<" ", "-", " ">> \o comment
    ELSE productName \o comment

\* zeroth as injectJpegComment fills it
CommentZeroth(productName, comment) ==
    IF Description(productName, comment) # <<>>
    THEN [t \in {"ImageDescription"} |-> Description(productName, comment)]
    ELSE NoTags

\* piexif.dump: the Exif bytes of exactly the tags given
dump(zeroth) == zeroth

\* piexif.insert: the JPEG with the given bytes as its Exif segment, in place
\* of the one it had
insert(exifBytes, payload) == [payload EXCEPT !.exif = exifBytes]

\* What a load handler can meet: piexif.dump or piexif.insert throwing
Outcomes == {"ok", "dump", "insert"}

\* What fr.onload of injectJpegDpiIfNeeded resolves with
DpiResolved(payload, dpi, outcome) ==
    IF outcome = "ok" THEN insert(dump(DpiZeroth(dpi)), payload) ELSE payload

\* What fr.onload of injectJpegComment resolves with
CommentResolved(payload, productName, comment, outcome) ==
    IF outcome = "ok"
    THEN insert(dump(CommentZeroth(productName, comment)), payload)
    ELSE payload

\* injectJpegDpiIfNeeded returns a promise rather than the payload itself
DpiInjected == encOptions.jpegDpi # 0 /\ encOptions.jpegDpi > 0

CommentInjected == encOptions.productName # <<>> \/ encOptions.comment # <<>>

\* transformSingle after the DPI step: the comment injection or the return
ThenComment ==
    IF CommentInjected
    THEN at' = "comment" /\ fr' = "reading"
    ELSE at' = "returned" /\ fr' = "none"

InjectInit ==
    /\ encOptions \in [format : Formats, jpegDpi : {-1, 0, 72, 300},
                       productName : {<<>>, <<"P">>}, comment : {<<>>, <<"c">>}]
    /\ blob = NoBlob
    /\ at = "encoding"
    /\ fr = "none"
    /\ injections = <<>>

\* renderToBlob resolves: transformSingle runs on to its next await
Rendered ==
    /\ at = "encoding"
    /\ blob' = Encoded
    /\ IF encOptions.format # "jpeg"
       THEN at' = "returned" /\ fr' = "none"
       ELSE IF DpiInjected
       THEN at' = "dpi" /\ fr' = "reading"
       ELSE ThenComment
    /\ UNCHANGED <<encOptions, injections>>

\* fr.onload of injectJpegDpiIfNeeded, and transformSingle resumed
DpiLoaded ==
    /\ at = "dpi" /\ fr = "reading"
    /\ \E outcome \in Outcomes :
          /\ blob' = DpiResolved(blob, encOptions.jpegDpi, outcome)
          /\ injections' = Append(injections,
                 [step |-> "dpi", outcome |-> outcome, before |-> blob,
                  after |-> blob', settled |-> TRUE])
    /\ ThenComment
    /\ UNCHANGED encOptions

\* The read of injectJpegDpiIfNeeded fails: fr has no error handler
DpiReadFailed ==
    /\ at = "dpi" /\ fr = "reading"
    /\ fr' = "failed"
    /\ injections' = Append(injections,
           [step |-> "dpi", outcome |-> "read", before |-> blob,
            after |-> blob, settled |-> FALSE])
    /\ UNCHANGED <<encOptions, blob, at>>

\* fr.onload of injectJpegComment, and transformSingle resumed to its return
CommentLoaded ==
    /\ at = "comment" /\ fr = "reading"
    /\ \E outcome \in Outcomes :
          /\ blob' = CommentResolved(blob, encOptions.productName,
                                     encOptions.comment, outcome)
          /\ injections' = Append(injections,
                 [step |-> "comment", outcome |-> outcome, before |-> blob,
                  after |-> blob', settled |-> TRUE])
    /\ at' = "returned"
    /\ fr' = "none"
    /\ UNCHANGED encOptions

\* The read of injectJpegComment fails: fr has no error handler
CommentReadFailed ==
    /\ at = "comment" /\ fr = "reading"
    /\ fr' = "failed"
    /\ injections' = Append(injections,
           [step |-> "comment", outcome |-> "read", before |-> blob,
            after |-> blob, settled |-> FALSE])
    /\ UNCHANGED <<encOptions, blob, at>>

\* ------------------------------------------------------------------------
\* app.js: the file list, the process button and the batches it starts
\* ------------------------------------------------------------------------
VARIABLES
    selectedFiles,    \* the number of selected files
    managerPresets,   \* presetManager.presets.length
    disabled,         \* processBtn.disabled
    progressHidden,   \* progress.hidden
    running           \* the processBatch calls not yet settled: [files, presets]

appVars == <<selectedFiles, managerPresets, disabled, progressHidden, running>>

\* renderFileList: what it makes of processBtn.disabled
renderFileList(count, presetCount) == count = 0 \/ presetCount = 0

\* addFiles with a list of n files, m of them images
addFiles(n, m) ==
    IF n = 0
    THEN UNCHANGED <<selectedFiles, disabled>>
    ELSE /\ selectedFiles' = selectedFiles + m
         /\ disabled' = renderFileList(selectedFiles', managerPresets)

\* The page as loaded: no files, the one preset of line 177; the markup
\* decides the button and the progress bar
AppInit ==
    /\ selectedFiles = 0
    /\ managerPresets = 1
    /\ disabled \in BOOLEAN
    /\ progressHidden \in BOOLEAN
    /\ running = <<>>

\* dropzone 'drop'
Drop ==
    /\ \E n \in 0..MaxSelected : \E m \in 0..n :
          /\ selectedFiles + m <= MaxSelected
          /\ addFiles(n, m)
    /\ UNCHANGED <<managerPresets, progressHidden, running>>

\* fileInput 'change'
Change ==
    /\ \E n \in 0..MaxSelected :
          /\ selectedFiles + n <= MaxSelected
          /\ addFiles(n, n)
    /\ UNCHANGED <<managerPresets, progressHidden, running>>

\* clearBtn 'click'
clearFiles ==
    /\ selectedFiles' = 0
    /\ disabled' = renderFileList(0, managerPresets)
    /\ UNCHANGED <<managerPresets, progressHidden, running>>

\* addPresetBtn 'click'
AddPreset ==
    /\ managerPresets < MaxManagerPresets
    /\ managerPresets' = managerPresets + 1
    /\ UNCHANGED <<selectedFiles, disabled, progressHidden, running>>

\* processBtn 'click', up to the await of processBatch; a disabled button
\* gets no click
ProcessClick ==
    /\ ~disabled
    /\ Len(running) < MaxRunning
    /\ IF selectedFiles = 0 \/ managerPresets = 0
       THEN UNCHANGED <<disabled, progressHidden, running>>
       ELSE /\ disabled' = TRUE
            /\ progressHidden' = FALSE
            /\ running' = Append(running, [files |-> selectedFiles,
                                           presets |-> managerPresets])
    /\ UNCHANGED <<selectedFiles, managerPresets>>

\* A processBatch call settles, resolved or rejected: the handler's finally
BatchSettled ==
    /\ \E k \in 1..Len(running) :
          running' = SubSeq(running, 1, k - 1) \o SubSeq(running, k + 1, Len(running))
    /\ disabled' = FALSE
    /\ progressHidden' = TRUE
    /\ UNCHANGED <<selectedFiles, managerPresets>>

\* ------------------------------------------------------------------------
\* Specifications
\* ------------------------------------------------------------------------
vars ==
    <<batchVars, nameVars, orientVars, fitVars, transformVars, sharpenVars,
      injectVars, appVars>>

othersOfBatch ==
    <<nameVars, orientVars, fitVars, transformVars,
      sharpenVars, injectVars, appVars>>

othersOfName ==
    <<batchVars, orientVars, fitVars, transformVars,
      sharpenVars, injectVars, appVars>>

othersOfOrient ==
    <<batchVars, nameVars, fitVars, transformVars,
      sharpenVars, injectVars, appVars>>

othersOfFit ==
    <<batchVars, nameVars, orientVars, transformVars,
      sharpenVars, injectVars, appVars>>

othersOfTransform ==
    <<batchVars, nameVars, orientVars, fitVars,
      sharpenVars, injectVars, appVars>>

othersOfSharpen ==
    <<batchVars, nameVars, orientVars, fitVars,
      transformVars, injectVars, appVars>>

\* No batch is run
BatchIdle ==
    /\ files = <<>> /\ presets = <<>>
    /\ globalOptions = [namingPattern |-> <<>>, productName |-> <<>>]
    /\ onProgress = FALSE
    /\ pc = "off"
    /\ i = 0 /\ p = 0
    /\ completed = 0 /\ total = 0
    /\ zipFolders = {} /\ zipFiles = {}
    /\ folderUsedNames = <<>>
    /\ placed = <<>>
    /\ failed = {}
    /\ error = "none"
    /\ trace = <<>>

OrientIdle ==
    /\ imageBitmap = getCanvasContext(1, 1)
    /\ orientation = 0
    /\ canvases = <<>>

FitIdle ==
    /\ fitArgs = [srcW |-> 1, srcH |-> 1, dstW |-> 1, dstH |-> 1, fit |-> "stretch"]
    /\ rects = <<>>

TransformIdle ==
    /\ job = [srcW |-> 1, srcH |-> 1, width |-> 0, height |-> 0,
              keepAspect |-> TRUE, fit |-> "stretch", format |-> "png",
              preserveTransparency |-> TRUE]
    /\ drawn = <<>>

SharpenIdle ==
    /\ imageData = [w |-> 1, h |-> 1, px |-> [c \in Cells(1, 1) |-> <<0, 0, 0, 0>>]]
    /\ intensity = <<0, 1>>
    /\ sharpened = <<>>

InjectIdle ==
    /\ encOptions = [format |-> "png", jpegDpi |-> 0, productName |-> <<>>,
                     comment |-> <<>>]
    /\ blob = NoBlob
    /\ at = "off"
    /\ fr = "none"
    /\ injections = <<>>

AppIdle ==
    /\ selectedFiles = 0
    /\ managerPresets = 0
    /\ disabled = TRUE
    /\ progressHidden = TRUE
    /\ running = <<>>

\* A batch: processBatch from its call to its return or rejection
Init ==
    /\ BatchInit /\ NameInit /\ OrientIdle /\ FitIdle /\ TransformIdle
    /\ SharpenIdle /\ InjectIdle /\ AppIdle

Next ==
    \/ Call /\ UNCHANGED othersOfBatch
    \/ TransformOk /\ UNCHANGED othersOfBatch
    \/ TransformFail /\ UNCHANGED othersOfBatch
    \/ YieldResume /\ UNCHANGED othersOfBatch
    \/ FinalizeOk /\ UNCHANGED othersOfBatch
    \/ FinalizeFail /\ UNCHANGED othersOfBatch

Spec == Init /\ [][Next]_vars

\* The naming engine alone
InitName ==
    /\ BatchIdle /\ NameInit /\ OrientIdle /\ FitIdle /\ TransformIdle
    /\ SharpenIdle /\ InjectIdle /\ AppIdle

NextName ==
    \E b \in BaseNames : Request(b) /\ UNCHANGED othersOfName

SpecName == InitName /\ [][NextName]_vars

\* The orientation normalizer alone
InitOrient ==
    /\ BatchIdle /\ NameInit /\ OrientInit /\ FitIdle /\ TransformIdle
    /\ SharpenIdle /\ InjectIdle /\ AppIdle

NextOrient ==
    \/ Normalize /\ UNCHANGED othersOfOrient
    \/ NormalizeBack /\ UNCHANGED othersOfOrient

SpecOrient == InitOrient /\ [][NextOrient]_vars

\* The fit resolver alone
InitFit ==
    /\ BatchIdle /\ NameInit /\ OrientIdle /\ FitInit /\ TransformIdle
    /\ SharpenIdle /\ InjectIdle /\ AppIdle

NextFit == ComputeRect /\ UNCHANGED othersOfFit

SpecFit == InitFit /\ [][NextFit]_vars

\* One job's draw alone
InitTransform ==
    /\ BatchIdle /\ NameInit /\ OrientIdle /\ FitIdle /\ TransformInit
    /\ SharpenIdle /\ InjectIdle /\ AppIdle

NextTransform == Draw /\ UNCHANGED othersOfTransform

SpecTransform == InitTransform /\ [][NextTransform]_vars

\* The sharpening pass alone
InitSharpen ==
    /\ BatchIdle /\ NameInit /\ OrientIdle /\ FitIdle /\ TransformIdle
    /\ SharpenInit /\ InjectIdle /\ AppIdle

NextSharpen ==
    Sharpen /\ UNCHANGED othersOfSharpen

SpecSharpen == InitSharpen /\ [][NextSharpen]_vars

\* One job's encoding and metadata injection alone
othersOfInject ==
    <<batchVars, nameVars, orientVars, fitVars, transformVars, sharpenVars,
      appVars>>

InitInject ==
    /\ BatchIdle /\ NameInit /\ OrientIdle /\ FitIdle /\ TransformIdle
    /\ SharpenIdle /\ InjectInit /\ AppIdle

NextInject ==
    \/ Rendered /\ UNCHANGED othersOfInject
    \/ DpiLoaded /\ UNCHANGED othersOfInject
    \/ DpiReadFailed /\ UNCHANGED othersOfInject
    \/ CommentLoaded /\ UNCHANGED othersOfInject
    \/ CommentReadFailed /\ UNCHANGED othersOfInject

SpecInject == InitInject /\ [][NextInject]_vars

\* The page's file and button handlers alone
othersOfApp ==
    <<batchVars, nameVars, orientVars, fitVars, transformVars, sharpenVars,
      injectVars>>

InitApp ==
    /\ BatchIdle /\ NameInit /\ OrientIdle /\ FitIdle /\ TransformIdle
    /\ SharpenIdle /\ InjectIdle /\ AppInit

NextApp ==
    \/ Drop /\ UNCHANGED othersOfApp
    \/ Change /\ UNCHANGED othersOfApp
    \/ clearFiles /\ UNCHANGED othersOfApp
    \/ AddPreset /\ UNCHANGED othersOfApp
    \/ ProcessClick /\ UNCHANGED othersOfApp
    \/ BatchSettled /\ UNCHANGED othersOfApp

SpecApp == InitApp /\ [][NextApp]_vars

\* ------------------------------------------------------------------------
\* Properties of processBatch
\* ------------------------------------------------------------------------
Jobs == {<<fi, pi>> : fi \in 0..(Len(files) - 1), pi \in 0..(Len(presets) - 1)}

\* The number of events of a kind among the first n events of the trace
CountBefore(kind, n) == Cardinality({k \in 1..n : trace[k][1] = kind})

EventsOf(kind) == SelectSeq(trace, LAMBDA e : e[1] = kind)

Finished == pc \in {"done", "rejected"}

\* C1: when transformSingle fails for one job, only that job fails: the
\* batch does not end because of it, and the archive the batch returns holds
\* the artifact of every job that did not fail.
C1_JobFailureIsolated ==
    failed # {} =>
        /\ error # "job"
        /\ pc = "done" => {e.blob : e \in zipFiles} = Jobs \ failed

\* C2: with every job succeeding, onProgress is called once after each
\* completed job, the k-th call with completed = k and total = F*P, and
\* F*P times by the time the batch returns.
C2_ProgressExact ==
    onProgress =>
        LET prog == EventsOf("progress")
        IN /\ Len(prog) = completed
           /\ \A k \in 1..Len(prog) :
                 prog[k] = <<"progress", k, Len(files) * Len(presets)>>
           /\ \A n \in 1..Len(trace) :
                 /\ trace[n][1] = "progress" => n > 1 /\ trace[n - 1][1] = "add"
                 /\ trace[n][1] = "add" =>
                        n < Len(trace) /\ trace[n + 1][1] = "progress"
           /\ pc = "done" => Len(prog) = Len(files) * Len(presets)

C2_Witness ==
    /\ pc = "done" /\ onProgress
    /\ Len(files) = 2 /\ Len(presets) = 2
    /\ Len(EventsOf("progress")) = 4

DistinctFolders ==
    \A a, b \in 1..Len(presets) :
        a # b => FolderOf(presets[a]) # FolderOf(presets[b])

\* The sanitized name of a preset, computed apart from FolderOf
OwnFolder(preset) ==
    sanitizeFilename(IF preset.name = <<>> THEN PRESET ELSE preset.name)

\* C3: when the sanitized preset names are pairwise distinct, the archive
\* holds k entries after the k-th completed job, each entry lies in the
\* folder of its own preset, and a batch that returned holds F*P entries
\* in P folders.
C3_ArchiveLayout ==
    (\A a, b \in 1..Len(presets) :
        a # b => OwnFolder(presets[a]) # OwnFolder(presets[b])) =>
        /\ Cardinality(zipFiles) = completed
        /\ \A e \in zipFiles : e.folder = OwnFolder(presets[e.blob[2] + 1])
        /\ {e.folder : e \in zipFiles} \subseteq zipFolders
        /\ pc = "done" =>
              /\ Cardinality(zipFiles) = Len(files) * Len(presets)
              /\ Cardinality(zipFolders) = Len(presets)
              /\ {e.blob : e \in zipFiles} = Jobs

C3_Witness ==
    /\ pc = "done" /\ DistinctFolders
    /\ Len(files) = 2 /\ Len(presets) = 2
    /\ files[1] = files[2]
    /\ Cardinality(zipFiles) = 4 /\ Cardinality(zipFolders) = 2

\* C4: no two jobs of a batch were archived in the same folder under the
\* same final file name.
C4_UniqueInFolder ==
    \A a, b \in 1..Len(placed) :
        (a # b /\ placed[a].folder = placed[b].folder) =>
            placed[a].name # placed[b].name

\* Two presets of different names share a folder, two jobs asked for the
\* same base name in it, and a job got base-3 because base-2 was a name
\* taken by another base.
C4_Witness ==
    /\ pc = "done"
    /\ \E a, b \in 1..Len(presets) :
          presets[a].name # presets[b].name
          /\ FolderOf(presets[a]) = FolderOf(presets[b])
    /\ \E a, b \in 1..Len(placed) :
          /\ a < b
          /\ placed[a].folder = placed[b].folder
          /\ placed[a].base = placed[b].base
    /\ \E b \in 1..Len(placed) :
          /\ \E ext \in {<<"j", "p", "g">>, <<"p", "n", "g">>} :
                placed[b].name = Suffixed(placed[b].base, 3) \o <<".">> \o ext
          /\ Cardinality({a \in 1..b : placed[a].folder = placed[b].folder
                                       /\ placed[a].base = placed[b].base}) = 2

\* C6: jobs start in row-major order, a job starts only once every job
\* started before it has been archived, and zip.generateAsync is called at
\* most once, after all F*P jobs were archived, and once in a batch that
\* returned.
C6_SequentialRowMajor ==
    LET starts == EventsOf("start")
        adds == EventsOf("add")
    IN /\ Len(adds) <= Len(starts)
       /\ \A k \in 1..Len(starts) :
             starts[k] = <<"start", (k - 1) \div Len(presets),
                                    (k - 1) % Len(presets)>>
       /\ \A k \in 1..Len(adds) :
             adds[k] = <<"add", starts[k][2], starts[k][3]>>
       /\ \A n \in 1..Len(trace) :
             /\ trace[n][1] = "start" =>
                   CountBefore("add", n - 1) = CountBefore("start", n - 1)
             /\ trace[n][1] = "generate" =>
                   CountBefore("add", n - 1) = Len(files) * Len(presets)
       /\ Len(EventsOf("generate")) <= 1
       /\ pc = "done" => Len(EventsOf("generate")) = 1

C6_Witness ==
    /\ pc = "done"
    /\ Len(files) >= 2 /\ Len(presets) >= 2
    /\ Len(EventsOf("start")) = Len(files) * Len(presets)

\* C7: processBatch yields to the scheduler exactly when the count of
\* completed jobs is a positive multiple of 5, after that job's progress
\* report and before the next job starts (or the archive is generated).
C7_YieldEveryFifth ==
    /\ \A n \in 1..Len(trace) :
          trace[n][1] = "yield" =>
              /\ trace[n][2] = CountBefore("add", n)
              /\ trace[n][2] > 0 /\ trace[n][2] % 5 = 0
              /\ n > 1
              /\ trace[n - 1] = IF onProgress
                                THEN <<"progress", trace[n][2], total>>
                                ELSE <<"add", trace[n - 1][2], trace[n - 1][3]>>
    /\ \A n \in 2..Len(trace) :
          trace[n][1] \in {"start", "generate"} =>
              (trace[n - 1][1] = "yield" <=> CountBefore("add", n) % 5 = 0)
    /\ pc = "yield" <=> (trace # <<>> /\ trace[Len(trace)][1] = "yield")

C7_Witness ==
    /\ pc = "done" /\ onProgress
    /\ completed = 6
    /\ \E n \in 1..Len(trace) :
          /\ trace[n] = <<"yield", 5, 6>>
          /\ trace[n - 1] = <<"progress", 5, 6>>
          /\ trace[n + 1][1] = "start"
    /\ Len(EventsOf("yield")) = 1

\* ------------------------------------------------------------------------
\* Properties of makeUniqueName
\* ------------------------------------------------------------------------
IsDigits(s) == s # <<>> /\ \A k \in 1..Len(s) : \E d \in 1..10 : s[k] = DigitChars[d]

\* name is of the form base-k
FormOf(name, base) ==
    /\ Len(name) > Len(base) + 1
    /\ SubSeq(name, 1, Len(base) + 1) = base \o <<"-">>
    /\ IsDigits(SubSeq(name, Len(base) + 2, Len(name)))

\* The calls made for base, in order
CallsFor(base) == SelectSeq(nmLog, LAMBDA c : c.base = base)

\* The used-name set never held a name of the form base-k but those the
\* calls for base themselves returned
NoForeignSuffixed(base) ==
    \A k \in 1..Len(nmLog) : \A name \in nmLog[k].before :
        FormOf(name, base) =>
            \E j \in 1..(k - 1) : nmLog[j].base = base /\ nmLog[j].name = name

\* The first call for base returned base, the n-th base-n
CountsUp(base) ==
    LET calls == CallsFor(base)
    IN \A n \in 1..Len(calls) :
          calls[n].name = IF n = 1 THEN base ELSE Suffixed(base, n)

\* C5 as stated: on a used-name set holding no name of the form base-k, the
\* first request for base returns base, the n-th base-n, and each returned
\* name is in the set when the call returns.
C5_AsStated ==
    /\ \A base \in BaseNames : NoForeignSuffixed(base) => CountsUp(base)
    /\ \A k \in 1..Len(nmLog) : nmLog[k].name \in nmLog[k].after

\* C5, amended: the same on a used-name set that, when base is first
\* requested, holds neither base itself nor a name of the form base-k.
C5_CountsUpOnFreshBase ==
    /\ \A base \in BaseNames :
          (/\ NoForeignSuffixed(base)
           /\ \A k \in 1..Len(nmLog) :
                 (nmLog[k].base = base /\ base \in nmLog[k].before) =>
                     \E j \in 1..(k - 1) : nmLog[j].base = base)
          => CountsUp(base)
    /\ \A k \in 1..Len(nmLog) : nmLog[k].name \in nmLog[k].after

C5_Witness ==
    /\ Len(nmLog) = 4
    /\ nmLog[1].base = <<"b">>
    /\ \A k \in 2..4 : nmLog[k].base = <<"a">>
    /\ nmLog[2].name = <<"a">>
    /\ nmLog[3].name = <<"a", "-", "2">>
    /\ nmLog[4].name = <<"a", "-", "3">>
    /\ nmLog[4].name \in nmUsed

\* ------------------------------------------------------------------------
\* Properties of correctOrientationToCanvas
\* ------------------------------------------------------------------------
\* C8: a W x H raster is normalized to H x W for the codes 5 to 8, and to
\* W x H for the codes 1 to 4 and for an absent orientation.
C8_OrientedDimensions ==
    (canvases # <<>> /\ orientation \in 0..8) =>
        LET out == canvases[1]
            turned == orientation \in {5, 6, 7, 8}
        IN /\ out.w = IF turned THEN imageBitmap.h ELSE imageBitmap.w
           /\ out.h = IF turned THEN imageBitmap.w ELSE imageBitmap.h
           /\ DOMAIN out.px = Cells(out.w, out.h)

C8_Witness ==
    /\ canvases # <<>>
    /\ orientation = 5
    /\ imageBitmap.w = 2 /\ imageBitmap.h = 1
    /\ canvases[1].w = 1 /\ canvases[1].h = 2

\* C9: normalizing with a code in 1..8 and then with its inverse code gives
\* back the original raster, pixel for pixel.
C9_RoundTripIdentity ==
    Len(canvases) = 2 => canvases[2] = imageBitmap

\* ------------------------------------------------------------------------
\* Properties of computeDrawRect
\* ------------------------------------------------------------------------
\* C10: with fit contain or inside the rectangle lies inside the
\* destination: x >= 0, y >= 0, x + w <= dstW and y + h <= dstH.
C10_ContainInside ==
    (rects # <<>> /\ fitArgs.fit \in {"contain", "inside"}) =>
        LET r == rects[1]
        IN /\ r.x >= 0 /\ r.y >= 0
           /\ r.x + r.w <= fitArgs.dstW
           /\ r.y + r.h <= fitArgs.dstH

\* A contain fit that leaves a margin above and below the source
C10_Witness ==
    /\ rects # <<>>
    /\ fitArgs.fit = "contain"
    /\ fitArgs.srcW = 4 /\ fitArgs.srcH = 1
    /\ fitArgs.dstW = 3 /\ fitArgs.dstH = 4
    /\ rects[1] = [x |-> 0, y |-> 2, w |-> 3, h |-> 1]

\* C11: with fit cover the rectangle covers the destination: w >= dstW,
\* h >= dstH, x <= 0, y <= 0, x + w >= dstW and y + h >= dstH.
C11_CoverCovers ==
    (rects # <<>> /\ fitArgs.fit = "cover") =>
        LET r == rects[1]
        IN /\ r.w >= fitArgs.dstW /\ r.h >= fitArgs.dstH
           /\ r.x <= 0 /\ r.y <= 0
           /\ r.x + r.w >= fitArgs.dstW
           /\ r.y + r.h >= fitArgs.dstH

\* A cover fit that overscans the destination to the left and to the right
C11_Witness ==
    /\ rects # <<>>
    /\ fitArgs.fit = "cover"
    /\ fitArgs.srcW = 4 /\ fitArgs.srcH = 1
    /\ fitArgs.dstW = 3 /\ fitArgs.dstH = 4
    /\ rects[1] = [x |-> -6, y |-> 0, w |-> 16, h |-> 4]

\* ------------------------------------------------------------------------
\* Properties of transformSingle's draw
\* ------------------------------------------------------------------------
FullCanvas(d) == [x |-> 0, y |-> 0, w |-> d.targetW, h |-> d.targetH]

\* One dimension is set and the aspect ratio is kept
DerivesDimension == job.keepAspect /\ singleDim(job.width, job.height)

\* C12 as stated: the missing dimension is round(width * srcH / srcW) or
\* round(height * srcW / srcH), and the rectangle is the full canvas.
C12_AsStated ==
    (drawn # <<>> /\ DerivesDimension) =>
        LET d == drawn[1]
        IN /\ job.height = 0 =>
                /\ d.targetW = job.width
                /\ d.targetH = RoundHalfUp(job.width * job.srcH, job.srcW)
           /\ job.width = 0 =>
                /\ d.targetH = job.height
                /\ d.targetW = RoundHalfUp(job.height * job.srcW, job.srcH)
           /\ d.rect = FullCanvas(d)

\* v is n / d rounded, or one less where n / d lies exactly half way between
\* two integers and the double srcW / srcH is not the exact ratio
RoundedOrTieBelow(v, n, d) ==
    \/ v = RoundHalfUp(n, d)
    \/ /\ IsHalfWay(n, d)
       /\ ~ExactRatio(job.srcW, job.srcH)
       /\ v = RoundHalfUp(n, d) - 1

\* C12: with one of width and height set and the aspect ratio kept, the
\* missing dimension is round(width * srcH / srcW) or
\* round(height * srcW / srcH), or one less than that where the quotient lies
\* exactly half way between two integers; the rectangle is the full canvas
\* whatever the fit; a 1600x1200 source with width 800 gives 800x600.
C12_DerivedDimension ==
    (drawn # <<>> /\ DerivesDimension) =>
        LET d == drawn[1]
        IN /\ job.height = 0 =>
                /\ d.targetW = job.width
                /\ RoundedOrTieBelow(d.targetH, job.width * job.srcH, job.srcW)
           /\ job.width = 0 =>
                /\ d.targetH = job.height
                /\ RoundedOrTieBelow(d.targetW, job.height * job.srcW, job.srcH)
           /\ d.rect = FullCanvas(d)
           /\ (job.srcW = 1600 /\ job.srcH = 1200 /\ job.width = 800
                  /\ job.height = 0) =>
                (d.targetW = 800 /\ d.targetH = 600)

C12_Witness ==
    /\ drawn # <<>>
    /\ job.keepAspect
    /\ job.srcW = 1600 /\ job.srcH = 1200
    /\ job.width = 800 /\ job.height = 0
    /\ job.fit = "contain"
    /\ drawn[1].targetW = 800 /\ drawn[1].targetH = 600
    /\ drawn[1].rect = [x |-> 0, y |-> 0, w |-> 800, h |-> 600]

\* C13: the canvas is filled with the background before the draw exactly
\* when it cannot carry alpha (format jpeg or transparency not preserved), or
\* transparency is not preserved and the rectangle leaves a margin; a contain
\* fit into jpeg is always filled, a cover fit into png, webp or avif with
\* transparency preserved never.
C13_FillPolicy ==
    drawn # <<>> =>
        LET d == drawn[1]
            noAlpha == job.format = "jpeg" \/ ~job.preserveTransparency
            margin == \/ d.rect.x > 0 \/ d.rect.y > 0
                      \/ d.rect.w < d.targetW \/ d.rect.h < d.targetH
        IN /\ d.filled <=> (noAlpha \/ (~job.preserveTransparency /\ margin))
           /\ (job.fit = "contain" /\ job.format = "jpeg") => d.filled
           /\ (job.fit = "cover" /\ job.format # "jpeg"
                  /\ job.preserveTransparency) => ~d.filled

C13_Witness ==
    /\ drawn # <<>>
    /\ job.fit = "contain" /\ job.format = "jpeg"
    /\ job.preserveTransparency
    /\ job.width = 2 /\ job.height = 2 /\ job.srcW = 2 /\ job.srcH = 1
    /\ drawn[1].rect = [x |-> 0, y |-> 1, w |-> 2, h |-> 1]
    /\ drawn[1].filled

\* C17: when the preset sets at least one of width and height and the aspect
\* ratio is kept, both dimensions of the destination are at least 1.
C17_DimensionsAtLeastOne ==
    (drawn # <<>> /\ job.keepAspect /\ (job.width > 0 \/ job.height > 0)) =>
        (drawn[1].targetW >= 1 /\ drawn[1].targetH >= 1)

\* ------------------------------------------------------------------------
\* Properties of applySharpen
\* ------------------------------------------------------------------------
Border(w, h) ==
    {cell \in Cells(w, h) :
        cell[1] = 0 \/ cell[1] = w - 1 \/ cell[2] = 0 \/ cell[2] = h - 1}

\* C15: after a pass with intensity > 0 every pixel of the 1-pixel border has
\* all four channels as before, and every pixel has its alpha as before.
C15_BorderAndAlphaKept ==
    (sharpened # <<>> /\ intensity[1] > 0) =>
        /\ \A cell \in Border(imageData.w, imageData.h) :
              sharpened[1].px[cell] = imageData.px[cell]
        /\ \A cell \in Cells(imageData.w, imageData.h) :
              sharpened[1].px[cell][4] = imageData.px[cell][4]

\* ------------------------------------------------------------------------
\* Properties of the metadata injection
\* ------------------------------------------------------------------------
\* C14: an injection that fails completes with the payload it was given, and
\* the job goes on to return its artifact: it neither throws nor is left
\* waiting for a promise that nothing settles.
C14_InjectionFailureContained ==
    \A k \in 1..Len(injections) :
        injections[k].outcome # "ok" =>
            /\ injections[k].settled
            /\ injections[k].after = injections[k].before
            /\ k = Len(injections) =>
                  \/ at = "returned" /\ blob = injections[k].before
                  \/ at = "comment" /\ fr = "reading"

\* C16: a jpeg job with jpegDpi > 0 and a product name or comment, both
\* injections done: the final payload holds X and Y resolution jpegDpi, the
\* unit inches and the description.
C16_ResolutionAndDescription ==
    (/\ at = "returned"
     /\ encOptions.format = "jpeg"
     /\ encOptions.jpegDpi > 0
     /\ CommentInjected
     /\ \A k \in 1..Len(injections) : injections[k].outcome = "ok") =>
        /\ DOMAIN blob.exif = {"XResolution", "YResolution", "ResolutionUnit",
                               "ImageDescription"}
        /\ blob.exif["XResolution"] = <<encOptions.jpegDpi, 1>>
        /\ blob.exif["YResolution"] = <<encOptions.jpegDpi, 1>>
        /\ blob.exif["ResolutionUnit"] = 2
        /\ blob.exif["ImageDescription"] =
               Description(encOptions.productName, encOptions.comment)

\* ------------------------------------------------------------------------
\* Properties of the page
\* ------------------------------------------------------------------------
\* C18: at most one batch is in flight: while a processBatch call is not
\* settled the process button is disabled, whatever files are added, dropped
\* or cleared, and no second call is started.
C18_SingleBatchInFlight ==
    /\ running # <<>> => disabled
    /\ Len(running) <= 1
====
